---- MODULE Spec2Model ----
(***************************************************************************)
(* Model of the pbc-kyc contract (src/src/lib.rs): the contract state, its  *)
(* four actions, its two callbacks, and the blockchain environment that     *)
(* carries the event groups the actions build and later invokes the         *)
(* attached callback with the outcome of the outbound call.                 *)
(*                                                                          *)
(* A failed assert! aborts the transaction: the contract state is as it was *)
(* and no event group is emitted.                                           *)
(***************************************************************************)
EXTENDS Integers, Sequences, FiniteSets, Bags, TLC

VARIABLES
    owner,              \* ContractState.owner
    registry_address,   \* ContractState.registry_address
    storage_adddress,   \* ContractState.storage_adddress
    kycs,               \* ContractState.kycs : SortedVecMap<u128, Kyc>
    calls,              \* the bag of event groups in flight
    last                \* the transaction executed last, and how it ended

vars == <<owner, registry_address, storage_adddress, kycs, calls, last>>

(***************************** bounds ***************************************)
\* Event groups (outbound call + callback) in flight at one time.
MaxInFlight == 2

\* Records committed or on their way to be committed.
MaxKycs == 2

\* Senders of transactions.
Accounts == {"acc1", "acc2"}

\* Senders of the transaction that creates the contract.
Creators == {"acc1"}

\* Applicant DIDs and attribute lists handed to upload_kyc.
Applicants ==
    {[did |-> "did:1",
      info |-> <<[property_name |-> "name", property_value |-> "Alice"]>>],
     [did |-> "did:2", info |-> <<>>]}

\* The strings handed to create_vc.
IssuerDids == {"did:issuer:1"}
ValidSince == {"2024-01-01"}
ValidUntil == {"2030-01-01"}
Descriptions == {"KYC verified"}

(***************************** addresses ************************************)
\* Address { address_type, identifier: [u8; 20] }.  The 20 identifier bytes
\* are modelled by one number; 0 is the all-zero array [0x00; 20].
ZeroIdentifier == 0

Contract(identifier) == [address_type |-> "PublicContract", identifier |-> identifier]

blank_address == [address_type |-> "Account", identifier |-> ZeroIdentifier]

\* The pairs (target_registry_address, target_storage_address) handed to
\* configure_registry_address: both usable; the storage address left blank;
\* both contract addresses with an all-zero identifier.
ConfigInputs ==
    {<<Contract(1), Contract(1)>>,
     <<Contract(1), blank_address>>,
     <<Contract(ZeroIdentifier), Contract(ZeroIdentifier)>>}

(***************************** panic messages *******************************)
NoError == "ok"
NotAuthorized == "Not Authorized!"
RegistryNotConfigured == "Please configure a valid DID Registry Address!"
StorageNotConfigured == "Please configure a valid VC Storage Address!"
KycNotFound == "KYC Not Found!"
KycNotApproved == "KYC Not Approved!"
DidNotRegistered == "DID Not Registered or Not Authorized!"
VcFailedToUpload == "VC Failed to Upload!"

(***************************** records **************************************)
\* Kyc { applicant_did, applicant_info, approved: false, pending: true }
NewKyc_Approved(applicant_did, applicant_info) ==
    [applicant_did |-> applicant_did,
     applicant_info |-> applicant_info,
     approved |-> TRUE,
     pending |-> TRUE]

NewKyc(applicant_did, applicant_info) ==
    [applicant_did |-> applicant_did,
     applicant_info |-> applicant_info,
     approved |-> FALSE,
     pending |-> TRUE]

\* The value of a field of `last` that does not apply.
None == "none"

\* state.kycs.len()
KycsLen(m) == Cardinality(DOMAIN m)

\* state.kycs.insert(k, v): SortedVecMap::insert replaces the value of a key
\* already present and adds the key otherwise.
Insert_Clobber(m, k, v) == [x \in (DOMAIN m) \cup {k} |-> v]

Insert(m, k, v) == [x \in (DOMAIN m) \cup {k} |-> IF x = k THEN v ELSE m[x]]

\* The transaction executed last: the handler, its context.sender (for a
\* callback, the callback_context.success it was invoked with), and how it
\* ended.
Tx(op, sender, err, success) ==
    [op |-> op, sender |-> sender, err |-> err, success |-> success]

\* A failed assert! in an action: nothing of the contract state changes and
\* no event group is emitted.
Panic(op, sender, err) ==
    /\ last' = Tx(op, sender, err, None)
    /\ UNCHANGED <<owner, registry_address, storage_adddress, kycs, calls>>

(***************************** initialize ***********************************)
Init ==
    /\ owner \in Creators
    /\ registry_address = blank_address
    /\ storage_adddress = blank_address
    /\ kycs = <<>>
    /\ calls = EmptyBag
    /\ last = Tx("initialize", owner, NoError, None)

(***************************** guards ***************************************)
\* context.sender == state.owner
IsOwner_Anyone(sender) == sender \in Accounts

IsOwner(sender) == sender = owner

\* state.registry_address.identifier != [0x00; 20]
RegistryConfigured_NotBlank == registry_address # blank_address

RegistryConfigured == registry_address.identifier # ZeroIdentifier

\* state.storage_adddress.identifier != [0x00; 20]
StorageConfigured_Inverted == storage_adddress.identifier = ZeroIdentifier

StorageConfigured == storage_adddress.identifier # ZeroIdentifier

(***************************** configure_registry_address *******************)
\* configure_registry_address forgetting the storage address.
configure_registry_address_RegistryOnly(sender, target_registry_address, target_storage_address) ==
    IF ~IsOwner(sender)
    THEN Panic("configure_registry_address", sender, NotAuthorized)
    ELSE /\ registry_address' = target_registry_address
         /\ last' = Tx("configure_registry_address", sender, NoError, None)
         /\ UNCHANGED <<owner, storage_adddress, kycs, calls>>

configure_registry_address(sender, target_registry_address, target_storage_address) ==
    IF ~IsOwner(sender)
    THEN Panic("configure_registry_address", sender, NotAuthorized)
    ELSE /\ registry_address' = target_registry_address
         /\ storage_adddress' = target_storage_address
         /\ last' = Tx("configure_registry_address", sender, NoError, None)
         /\ UNCHANGED <<owner, kycs, calls>>

(***************************** upload_kyc ***********************************)
\* The number of in-flight event groups that carry a record to commit.
Uploads(q) ==
    BagCardinality([e \in {x \in BagToSet(q) : x.callback = "upload_kyc_callback"} |-> q[e]])

\* An event group is built: it joins those in flight.
Emit_Twice(q, e) == q (+) SetToBag({e}) (+) SetToBag({e})

Emit(q, e) == q (+) SetToBag({e})

\* The event group upload_kyc builds: the call to the registry (shortname
\* 0x05) with (copied_did, context.sender), and the callback 0x12 carrying
\* new_kyc.  pre records the size of kycs when the event group was built.
UploadEvent(sender, applicant_did, new_kyc) ==
    [callback |-> "upload_kyc_callback",
     target |-> registry_address,
     arguments |-> <<applicant_did, sender>>,
     payload |-> new_kyc,
     pre |-> KycsLen(kycs)]

\* upload_kyc storing new_kyc at once instead of handing it to the callback.
upload_kyc_Eager(sender, applicant_did, applicant_info) ==
    IF ~RegistryConfigured
    THEN Panic("upload_kyc", sender, RegistryNotConfigured)
    ELSE /\ BagCardinality(calls) < MaxInFlight
         /\ KycsLen(kycs) + Uploads(calls) < MaxKycs
         /\ kycs' = Insert(kycs, KycsLen(kycs), NewKyc(applicant_did, applicant_info))
         /\ last' = Tx("upload_kyc", sender, NoError, None)
         /\ UNCHANGED <<owner, registry_address, storage_adddress, calls>>

upload_kyc(sender, applicant_did, applicant_info) ==
    IF ~RegistryConfigured
    THEN Panic("upload_kyc", sender, RegistryNotConfigured)
    ELSE /\ BagCardinality(calls) < MaxInFlight
         /\ KycsLen(kycs) + Uploads(calls) < MaxKycs
         /\ calls' = Emit(calls, UploadEvent(sender, applicant_did,
                                             NewKyc(applicant_did, applicant_info)))
         /\ last' = Tx("upload_kyc", sender, NoError, None)
         /\ UNCHANGED <<owner, registry_address, storage_adddress, kycs>>

(***************************** callbacks ************************************)
\* The callback of the in-flight event group c is invoked, in whatever order
\* the called contracts finish: the event group leaves those in flight.
Remove(q, c) == q (-) SetToBag({c})

InFlight(c, callback) == BagIn(c, calls) /\ c.callback = callback

(***************************** upload_kyc_callback **************************)
\* let current_idx: u128 = state.kycs.len().try_into().unwrap();
CurrentIdx_OffByOne == IF KycsLen(kycs) = 0 THEN 0 ELSE KycsLen(kycs) - 1

CurrentIdx == KycsLen(kycs)

\* The callback without its assert!(callback_context.success, ...).
upload_kyc_callback_NoAssert(c, success) ==
    /\ InFlight(c, "upload_kyc_callback")
    /\ calls' = Remove(calls, c)
    /\ kycs' = Insert(kycs, CurrentIdx, c.payload)
    /\ last' = Tx("upload_kyc_callback", None, NoError, success)
    /\ UNCHANGED <<owner, registry_address, storage_adddress>>

\* The callback committing the record before its assert! fails.
upload_kyc_callback_CommitFirst(c, success) ==
    /\ InFlight(c, "upload_kyc_callback")
    /\ calls' = Remove(calls, c)
    /\ kycs' = Insert(kycs, CurrentIdx, c.payload)
    /\ last' = Tx("upload_kyc_callback", None,
                  IF success THEN NoError ELSE DidNotRegistered, success)
    /\ UNCHANGED <<owner, registry_address, storage_adddress>>

\* The callback asking the registry again when the verification failed.
upload_kyc_callback_Retry(c, success) ==
    /\ InFlight(c, "upload_kyc_callback")
    /\ IF ~success
       THEN /\ last' = Tx("upload_kyc_callback", None, DidNotRegistered, success)
            /\ UNCHANGED <<owner, registry_address, storage_adddress, kycs, calls>>
       ELSE /\ calls' = Remove(calls, c)
            /\ kycs' = Insert(kycs, CurrentIdx, c.payload)
            /\ last' = Tx("upload_kyc_callback", None, NoError, success)
            /\ UNCHANGED <<owner, registry_address, storage_adddress>>

upload_kyc_callback(c, success) ==
    /\ InFlight(c, "upload_kyc_callback")
    /\ calls' = Remove(calls, c)
    /\ IF ~success
       THEN /\ last' = Tx("upload_kyc_callback", None, DidNotRegistered, success)
            /\ UNCHANGED <<owner, registry_address, storage_adddress, kycs>>
       ELSE /\ kycs' = Insert(kycs, CurrentIdx, c.payload)
            /\ last' = Tx("upload_kyc_callback", None, NoError, success)
            /\ UNCHANGED <<owner, registry_address, storage_adddress>>

(***************************** approve_kyc **********************************)
\* kyc_to_approve.pending = false; kyc_to_approve.approved = decision
Decided_Sticky(kyc, decision) ==
    [kyc EXCEPT !.pending = FALSE, !.approved = kyc.approved \/ decision]

Decided_Toggle(kyc, decision) ==
    [kyc EXCEPT !.pending = ~kyc.pending, !.approved = IF decision THEN TRUE ELSE FALSE]

Decided_Rebuilt(kyc, decision) ==
    [applicant_did |-> kyc.applicant_did,
     applicant_info |-> <<>>,
     approved |-> IF decision THEN TRUE ELSE FALSE,
     pending |-> FALSE]

Decided_KeepPending(kyc, decision) ==
    [kyc EXCEPT !.approved = IF decision THEN TRUE ELSE FALSE]

Decided(kyc, decision) ==
    [kyc EXCEPT !.pending = FALSE, !.approved = IF decision THEN TRUE ELSE FALSE]

approve_kyc(sender, kyc_idx, decision) ==
    IF ~IsOwner(sender)
    THEN Panic("approve_kyc", sender, NotAuthorized)
    ELSE IF kyc_idx \notin DOMAIN kycs
    THEN Panic("approve_kyc", sender, KycNotFound)
    ELSE /\ kycs' = [kycs EXCEPT ![kyc_idx] = Decided(kycs[kyc_idx], decision)]
         /\ last' = Tx("approve_kyc", sender, NoError, None)
         /\ UNCHANGED <<owner, registry_address, storage_adddress, calls>>

(***************************** create_vc ************************************)
\* state.kycs.get(&kyc_idx).unwrap().approved
KycApproved_Decided(kyc_idx) == ~kycs[kyc_idx].pending

KycApproved_Unchecked(kyc_idx) == TRUE

KycApproved(kyc_idx) == kycs[kyc_idx].approved

\* The event group create_vc builds: the call to the storage contract
\* (shortname 0x02) and the callback 0x14, which carries no argument.
VcEvent(kyc_idx, issuer_did, valid_since, valid_until, description) ==
    [callback |-> "create_vc_callback",
     target |-> storage_adddress,
     arguments |-> <<issuer_did, kyc_idx, kycs[kyc_idx].applicant_did,
                     kycs[kyc_idx].applicant_info, valid_since, valid_until,
                     description, FALSE>>]

\* create_vc looking the record up before it checks the storage address.
create_vc_LookupFirst(sender, kyc_idx, issuer_did, valid_since, valid_until, description) ==
    IF ~IsOwner(sender)
    THEN Panic("create_vc", sender, NotAuthorized)
    ELSE IF kyc_idx \notin DOMAIN kycs
    THEN Panic("create_vc", sender, KycNotFound)
    ELSE IF ~KycApproved(kyc_idx)
    THEN Panic("create_vc", sender, KycNotApproved)
    ELSE IF ~StorageConfigured
    THEN Panic("create_vc", sender, StorageNotConfigured)
    ELSE /\ BagCardinality(calls) < MaxInFlight
         /\ calls' = Emit(calls, VcEvent(kyc_idx, issuer_did, valid_since,
                                         valid_until, description))
         /\ last' = Tx("create_vc", sender, NoError, None)
         /\ UNCHANGED <<owner, registry_address, storage_adddress, kycs>>

create_vc(sender, kyc_idx, issuer_did, valid_since, valid_until, description) ==
    IF ~IsOwner(sender)
    THEN Panic("create_vc", sender, NotAuthorized)
    ELSE IF ~StorageConfigured
    THEN Panic("create_vc", sender, StorageNotConfigured)
    ELSE IF kyc_idx \notin DOMAIN kycs
    THEN Panic("create_vc", sender, KycNotFound)
    ELSE IF ~KycApproved(kyc_idx)
    THEN Panic("create_vc", sender, KycNotApproved)
    ELSE /\ BagCardinality(calls) < MaxInFlight
         /\ calls' = Emit(calls, VcEvent(kyc_idx, issuer_did, valid_since,
                                         valid_until, description))
         /\ last' = Tx("create_vc", sender, NoError, None)
         /\ UNCHANGED <<owner, registry_address, storage_adddress, kycs>>

(***************************** create_vc_callback ***************************)
\* The callback without its assert!(callback_context.success, ...).
create_vc_callback_NoAssert(c, success) ==
    /\ InFlight(c, "create_vc_callback")
    /\ calls' = Remove(calls, c)
    /\ last' = Tx("create_vc_callback", None, NoError, success)
    /\ UNCHANGED <<owner, registry_address, storage_adddress, kycs>>

create_vc_callback(c, success) ==
    /\ InFlight(c, "create_vc_callback")
    /\ calls' = Remove(calls, c)
    /\ last' = Tx("create_vc_callback", None,
                  IF success THEN NoError ELSE VcFailedToUpload, success)
    /\ UNCHANGED <<owner, registry_address, storage_adddress, kycs>>

(***************************** specification ********************************)
\* Record identifiers a caller may name: those in use and the first unused.
KycIdxs == 0 .. KycsLen(kycs)

Next ==
    \/ \E s \in Accounts, a \in ConfigInputs :
          configure_registry_address(s, a[1], a[2])
    \/ \E s \in Accounts, a \in Applicants : upload_kyc(s, a.did, a.info)
    \/ \E c \in BagToSet(calls), b \in BOOLEAN : upload_kyc_callback(c, b)
    \/ \E s \in Accounts, k \in KycIdxs, b \in BOOLEAN : approve_kyc(s, k, b)
    \/ \E s \in Accounts, k \in KycIdxs, i \in IssuerDids, vs \in ValidSince,
          vu \in ValidUntil, d \in Descriptions : create_vc(s, k, i, vs, vu, d)
    \/ \E c \in BagToSet(calls), b \in BOOLEAN : create_vc_callback(c, b)

Spec == Init /\ [][Next]_vars

(***************************** the environment resolves every call *********)
\* The addresses a call can go to: those the guards of upload_kyc and
\* create_vc let through.
Targets ==
    {t \in {x[1] : x \in ConfigInputs} \cup {x[2] : x \in ConfigInputs} :
        t.identifier # ZeroIdentifier}

\* Every event group the actions can build within the bounds.
UploadEvents ==
    {[callback |-> "upload_kyc_callback",
      target |-> t,
      arguments |-> <<a.did, s>>,
      payload |-> NewKyc(a.did, a.info),
      pre |-> n] :
        t \in Targets, a \in Applicants, s \in Accounts, n \in 0 .. (MaxKycs - 1)}

VcEvents ==
    {[callback |-> "create_vc_callback",
      target |-> t,
      arguments |-> <<i, k, a.did, a.info, vs, vu, d, FALSE>>] :
        t \in Targets, a \in Applicants, k \in 0 .. (MaxKycs - 1), i \in IssuerDids,
        vs \in ValidSince, vu \in ValidUntil, d \in Descriptions}

\* The called contract answers and the callback of event group c runs.
Resolve(c) ==
    \E b \in BOOLEAN : upload_kyc_callback(c, b) \/ create_vc_callback(c, b)

\* Event groups are told apart by what they carry: no two in flight are alike.
Distinct == \A e \in BagToSet(calls) : calls[e] = 1

\* The transactions of the owner, the submissions of anyone, and the
\* callbacks, with the event groups in flight kept distinct.
NextDistinct ==
    \/ \E a \in ConfigInputs : configure_registry_address(owner, a[1], a[2])
    \/ \E s \in Accounts, a \in Applicants :
          upload_kyc(s, a.did, a.info) /\ Distinct'
    \/ \E c \in BagToSet(calls), b \in BOOLEAN : upload_kyc_callback(c, b)
    \/ \E k \in DOMAIN kycs, b \in BOOLEAN : approve_kyc(owner, k, b)
    \/ \E k \in DOMAIN kycs, i \in IssuerDids, vs \in ValidSince,
          vu \in ValidUntil, d \in Descriptions :
          create_vc(owner, k, i, vs, vu, d) /\ Distinct'
    \/ \E c \in BagToSet(calls), b \in BOOLEAN : create_vc_callback(c, b)

\* The environment resolves every outbound call: the callback of an event
\* group in flight does not wait for ever.
FairSpec ==
    /\ Init
    /\ [][NextDistinct]_vars
    /\ \A e \in UploadEvents \cup VcEvents : WF_vars(Resolve(e))

\* The contract state proper: what a transaction may change.
state == <<owner, registry_address, storage_adddress, kycs>>

(***************************** claims ***************************************)
\* The step is the callback of the in-flight upload event group c.
IsUploadCallbackOf(c) ==
    /\ c.callback = "upload_kyc_callback"
    /\ calls' = Remove(calls, c)
    /\ last'.op = "upload_kyc_callback"

\* C1: a step that changes the set of stored records is the callback of an
\* in-flight upload_kyc event group invoked with success, and what it stores
\* is the record that event group carries; a callback invoked with failure,
\* and every step of a submission still in flight, stores nothing.
C1_StoredOnlyWhenVerified ==
    [][/\ DOMAIN kycs' # DOMAIN kycs =>
            /\ last'.op = "upload_kyc_callback"
            /\ last'.success = TRUE
            /\ \E c \in BagToSet(calls) :
                  /\ IsUploadCallbackOf(c)
                  /\ \E k \in DOMAIN kycs' \ DOMAIN kycs :
                        /\ DOMAIN kycs' = DOMAIN kycs \cup {k}
                        /\ kycs'[k] = c.payload
       /\ (last'.op = "upload_kyc_callback" /\ last'.success = FALSE) =>
            DOMAIN kycs' = DOMAIN kycs]_vars

\* C1 witness: a verified record is stored while another submission is
\* still outstanding.
C1_Witness ==
    /\ last.op = "upload_kyc_callback"
    /\ last.success = TRUE
    /\ KycsLen(kycs) = 1
    /\ Uploads(calls) = 1

\* C2: the keys of kycs are exactly 0 .. len-1, and a successful callback
\* inserts under the key len, which is not in use, leaving every entry
\* already stored as it was.
C2_KeysDense == DOMAIN kycs = 0 .. (KycsLen(kycs) - 1)

C2_InsertFresh ==
    (last'.op = "upload_kyc_callback" /\ last'.success = TRUE) =>
        /\ KycsLen(kycs) \notin DOMAIN kycs
        /\ DOMAIN kycs' = DOMAIN kycs \cup {KycsLen(kycs)}
        /\ \A k \in DOMAIN kycs : kycs'[k] = kycs[k]

C2_CollisionFree == []C2_KeysDense /\ [][C2_InsertFresh]_vars

\* C2 witness: a second submission, of another applicant, committed.
C2_Witness ==
    /\ last.op = "upload_kyc_callback"
    /\ last.success = TRUE
    /\ DOMAIN kycs = {0, 1}
    /\ kycs[0].applicant_did # kycs[1].applicant_did

\* C3 as claimed: a successful callback stores one new pending, unapproved
\* entry under the size kycs had when upload_kyc built the event group.
C3_IdIsSizeAtDispatch ==
    [][\A c \in BagToSet(calls) :
          (IsUploadCallbackOf(c) /\ last'.success = TRUE) =>
              /\ DOMAIN kycs' = DOMAIN kycs \cup {c.pre}
              /\ c.pre \notin DOMAIN kycs
              /\ kycs'[c.pre].pending
              /\ ~kycs'[c.pre].approved]_vars

\* C3 amended: a successful callback stores exactly one new pending,
\* unapproved entry under the size kycs has when the callback runs, which is
\* at least the size it had when upload_kyc built the event group.
C3_IdIsSizeAtCommit ==
    [][\A c \in BagToSet(calls) :
          (IsUploadCallbackOf(c) /\ last'.success = TRUE) =>
              /\ DOMAIN kycs' = DOMAIN kycs \cup {KycsLen(kycs)}
              /\ KycsLen(kycs') = KycsLen(kycs) + 1
              /\ c.pre <= KycsLen(kycs)
              /\ kycs'[KycsLen(kycs)].pending
              /\ ~kycs'[KycsLen(kycs)].approved
              /\ \A k \in DOMAIN kycs : kycs'[k] = kycs[k]]_vars

\* C3 witness: a submission committed while another, built when kycs was
\* smaller than it is now, is still in flight.
C3_Witness ==
    /\ last.op = "upload_kyc_callback"
    /\ last.success = TRUE
    /\ \E c \in BagToSet(calls) :
          /\ c.callback = "upload_kyc_callback"
          /\ c.pre < KycsLen(kycs)

\* C4: upload_kyc_callback invoked with failure ends with "DID Not
\* Registered or Not Authorized!" and leaves kycs, the owner and both
\* addresses as they were.
C4_FailureCommitsNothing ==
    [][(last'.op = "upload_kyc_callback" /\ last'.success = FALSE) =>
          /\ last'.err = DidNotRegistered
          /\ kycs' = kycs
          /\ owner' = owner
          /\ registry_address' = registry_address
          /\ storage_adddress' = storage_adddress]_vars

\* C4 witness: a callback failed with records already stored.
C4_Witness ==
    /\ last.op = "upload_kyc_callback"
    /\ last.success = FALSE
    /\ last.err = DidNotRegistered
    /\ KycsLen(kycs) = 1

\* C5: approve_kyc, create_vc and configure_registry_address sent by anyone
\* but the owner end with "Not Authorized!", build no event group and leave
\* the contract state as it was.
C5_Rejected ==
    /\ last'.err = NotAuthorized
    /\ calls' = calls
    /\ state' = state

C5_NonOwnerRejected ==
    [][(/\ last'.op \in {"approve_kyc", "create_vc", "configure_registry_address"}
        /\ last'.sender # owner) => C5_Rejected]_vars

\* C5 witness: an unauthorized transaction was rejected in a state where the
\* owner's create_vc would have been accepted.
C5_Witness ==
    /\ last.op = "create_vc"
    /\ last.sender # owner
    /\ last.err = NotAuthorized
    /\ storage_adddress.identifier # ZeroIdentifier
    /\ \E k \in DOMAIN kycs : kycs[k].approved
    /\ BagCardinality(calls) < MaxInFlight

\* The step is upload_kyc sent by s for applicant a.
IsUploadKyc(s, a) == last'.op = "upload_kyc" /\ upload_kyc(s, a.did, a.info)

\* The step is upload_kyc ending as given, with or without a new event group.
UploadRejected ==
    /\ last'.err = RegistryNotConfigured
    /\ calls' = calls
    /\ state' = state

UploadAccepted(a) ==
    /\ last'.err = NoError
    /\ \E e \in BagToSet(calls') :
          /\ e.callback = "upload_kyc_callback"
          /\ e.payload = NewKyc(a.did, a.info)
          /\ calls' = calls (+) SetToBag({e})
    /\ state' = state

\* C6 as claimed: upload_kyc fails with the registry address equal to the
\* blank address and is accepted from any sender with any other address.
C6_BlankSentinelDecides ==
    [][\A s \in Accounts, a \in Applicants :
          IsUploadKyc(s, a) =>
              IF registry_address = blank_address
              THEN UploadRejected
              ELSE UploadAccepted(a)]_vars

\* C6 amended: upload_kyc fails with "Please configure a valid DID Registry
\* Address!", builds no event group and leaves the state as it was whenever
\* the identifier of the registry address is all zero, whatever its address
\* type; with any other identifier it is accepted from any sender.
C6_ZeroIdentifierDecides ==
    [][\A s \in Accounts, a \in Applicants :
          IsUploadKyc(s, a) =>
              IF registry_address.identifier = ZeroIdentifier
              THEN UploadRejected
              ELSE UploadAccepted(a)]_vars

\* C6 witness: upload_kyc was rejected with a registry address that is not
\* the blank address.
C6_Witness ==
    /\ last.op = "upload_kyc"
    /\ last.err = RegistryNotConfigured
    /\ registry_address # blank_address

\* The step is the owner's create_vc on a stored record that is not approved.
IsCreateVcOnUnapproved(k) ==
    /\ last'.op = "create_vc"
    /\ k \in DOMAIN kycs
    /\ ~kycs[k].approved
    /\ \E i \in IssuerDids, vs \in ValidSince, vu \in ValidUntil, d \in Descriptions :
          create_vc(owner, k, i, vs, vu, d)

\* C7 as claimed: the owner's create_vc on a stored record that is not
\* approved fails with "KYC Not Approved!".
C7_UnapprovedNotApproved ==
    [][\A k \in KycIdxs :
          IsCreateVcOnUnapproved(k) =>
              /\ last'.err = KycNotApproved
              /\ calls' = calls
              /\ state' = state]_vars

\* C7 amended: the owner's create_vc on a stored record that is not approved
\* builds no event group and leaves the state as it was; it fails with "KYC
\* Not Approved!" when the identifier of the storage address is not all
\* zero, and with "Please configure a valid VC Storage Address!" when it is.
C7_UnapprovedRejected ==
    [][\A k \in KycIdxs :
          IsCreateVcOnUnapproved(k) =>
              /\ last'.err = IF storage_adddress.identifier = ZeroIdentifier
                             THEN StorageNotConfigured
                             ELSE KycNotApproved
              /\ calls' = calls
              /\ state' = state]_vars

\* C7 witness: create_vc was rejected for a denied record.
C7_Witness ==
    /\ last.op = "create_vc"
    /\ last.err = KycNotApproved
    /\ \E k \in DOMAIN kycs : ~kycs[k].approved /\ ~kycs[k].pending

\* C8: create_vc_callback invoked with failure ends with "VC Failed to
\* Upload!"; invoked with success it ends without error; and neither
\* create_vc nor create_vc_callback changes kycs, the owner or an address.
C8_IssuanceFrame ==
    [][/\ (last'.op = "create_vc_callback" /\ last'.success = FALSE) =>
            last'.err = VcFailedToUpload
       /\ (last'.op = "create_vc_callback" /\ last'.success = TRUE) =>
            last'.err = NoError
       /\ last'.op \in {"create_vc", "create_vc_callback"} => state' = state]_vars

\* C8 witness: the issuance of an approved record failed.
C8_Witness ==
    /\ last.op = "create_vc_callback"
    /\ last.success = FALSE
    /\ last.err = VcFailedToUpload
    /\ \E k \in DOMAIN kycs : kycs[k].approved /\ ~kycs[k].pending

\* C9: the owner's approve_kyc(k, b) on a stored record leaves it with
\* pending = false and approved = b whatever it was before, so that it
\* changes nothing on a record already decided as b, and approving and then
\* denying leaves pending = false, approved = false.
C9_LastDecisionWins ==
    [][(last'.op = "approve_kyc" /\ last'.sender = owner) =>
       \A k \in DOMAIN kycs, b \in BOOLEAN :
          approve_kyc(owner, k, b) =>
              /\ last'.err = NoError
              /\ kycs' = [kycs EXCEPT ![k].pending = FALSE, ![k].approved = b]
              /\ (~kycs[k].pending /\ kycs[k].approved = b) => kycs' = kycs
              /\ Decided(Decided(kycs[k], TRUE), FALSE)
                    = [kycs[k] EXCEPT !.pending = FALSE, !.approved = FALSE]
              /\ Decided(Decided(kycs[k], b), b) = kycs'[k]]_vars

\* C9 witness: a decision was taken, and there are a denied and an approved
\* record.
C9_Witness ==
    /\ last.op = "approve_kyc"
    /\ last.err = NoError
    /\ \E k \in DOMAIN kycs : ~kycs[k].pending /\ ~kycs[k].approved
    /\ \E k \in DOMAIN kycs : ~kycs[k].pending /\ kycs[k].approved

\* C10: no stored record is pending and approved at once.
C10_OneDisposition ==
    \A k \in DOMAIN kycs : ~(kycs[k].pending /\ kycs[k].approved)

\* C10 witness: a pending record and an approved record are stored.
C10_Witness ==
    /\ \E k \in DOMAIN kycs : kycs[k].pending /\ ~kycs[k].approved
    /\ \E k \in DOMAIN kycs : ~kycs[k].pending /\ kycs[k].approved

\* C11 as claimed: a record is the target of at most one write of
\* pending = false, so every accepted approve_kyc names a record that is
\* still pending.
C11_DecidedOnce ==
    [][(last'.op = "approve_kyc" /\ last'.err = NoError) =>
       \A k \in DOMAIN kycs, b \in BOOLEAN :
          approve_kyc(last'.sender, k, b) => kycs[k].pending]_vars

\* C11 amended: a record is stored with pending = true; pending changes only
\* from true to false, only in an accepted approve_kyc, and never back; an
\* accepted approve_kyc on a record already decided writes pending = false
\* again and leaves it false.
C11_PendingFallsOnce ==
    [][/\ \A k \in DOMAIN kycs' \ DOMAIN kycs : kycs'[k].pending
       /\ \A k \in DOMAIN kycs :
             /\ k \in DOMAIN kycs'
             /\ kycs'[k].pending # kycs[k].pending =>
                   /\ kycs[k].pending
                   /\ ~kycs'[k].pending
                   /\ last'.op = "approve_kyc"
                   /\ last'.err = NoError
       /\ (last'.op = "approve_kyc" /\ last'.err = NoError) =>
             \A k \in DOMAIN kycs, b \in BOOLEAN :
                approve_kyc(last'.sender, k, b) => ~kycs'[k].pending]_vars

\* C11 witness: every stored record has been decided, the last of them just
\* now.
C11_Witness ==
    /\ last.op = "approve_kyc"
    /\ last.err = NoError
    /\ KycsLen(kycs) = MaxKycs
    /\ \A k \in DOMAIN kycs : ~kycs[k].pending

\* C12: a step that adds a key to kycs is a successful upload_kyc_callback; a
\* step that changes a stored entry is an accepted approve_kyc; no step
\* removes a key; and upload_kyc, create_vc, create_vc_callback and
\* configure_registry_address leave kycs as it was.
C12_StoreFrame ==
    [][/\ DOMAIN kycs \subseteq DOMAIN kycs'
       /\ KycsLen(kycs') >= KycsLen(kycs)
       /\ DOMAIN kycs' # DOMAIN kycs =>
             (last'.op = "upload_kyc_callback" /\ last'.success = TRUE)
       /\ (\E k \in DOMAIN kycs : kycs'[k] # kycs[k]) =>
             (last'.op = "approve_kyc" /\ last'.err = NoError)
       /\ last'.op \in {"upload_kyc", "create_vc", "create_vc_callback",
                        "configure_registry_address"} => kycs' = kycs]_vars

\* C12 witness: with a record stored and decided, a further submission is
\* accepted and the store is as it was.
C12_Witness ==
    /\ last.op = "upload_kyc"
    /\ last.err = NoError
    /\ KycsLen(kycs) = 1
    /\ ~kycs[0].pending

\* C13: the owner is the sender of initialize and never changes; both
\* addresses start as the blank address; a step that changes an address is a
\* configure_registry_address sent by the owner, and every such transaction
\* leaves both addresses at the values it was given.
C13_Start ==
    last.op = "initialize" =>
        /\ owner = last.sender
        /\ registry_address = blank_address
        /\ storage_adddress = blank_address

C13_Step ==
    /\ owner' = owner
    /\ (registry_address' # registry_address \/ storage_adddress' # storage_adddress) =>
          /\ last'.op = "configure_registry_address"
          /\ last'.sender = owner
          /\ last'.err = NoError
    /\ (last'.op = "configure_registry_address" /\ last'.sender = owner) =>
          \A a \in ConfigInputs :
             configure_registry_address(owner, a[1], a[2]) =>
                (registry_address' = a[1] /\ storage_adddress' = a[2])

C13_Configuration == []C13_Start /\ [][C13_Step]_vars

\* C13 witness: the owner replaced usable addresses by unusable ones.
C13_Witness ==
    /\ last.op = "configure_registry_address"
    /\ last.err = NoError
    /\ registry_address = Contract(ZeroIdentifier)
    /\ storage_adddress = Contract(ZeroIdentifier)
    /\ KycsLen(kycs) > 0

\* The stored records of the end-to-end run for applicant a: pending,
\* approved.
E2E_Pending(a) == 0 :> NewKyc(a.did, a.info)

E2E_Approved(a) == 0 :> [NewKyc(a.did, a.info) EXCEPT !.pending = FALSE, !.approved = TRUE]

\* The step is the owner's create_vc on record k.
IsOwnersCreateVc(k) ==
    \E i \in IssuerDids, vs \in ValidSince, vu \in ValidUntil, d \in Descriptions :
       create_vc(owner, k, i, vs, vu, d)

\* C14: with both addresses usable and nothing stored, the successful
\* callback of a submission for applicant a leaves exactly record 0, pending;
\* the owner's approve_kyc(0, true) then leaves it with pending = false and
\* approved = true; the owner's create_vc(0, ...) then ends without error,
\* and so does its callback invoked with success, and both leave the store
\* as approve_kyc left it.
C14_EndToEnd ==
    [][\A a \in Applicants :
          /\ (/\ kycs = <<>>
              /\ last'.op = "upload_kyc_callback"
              /\ last'.success = TRUE
              /\ \E c \in BagToSet(calls) :
                    IsUploadCallbackOf(c) /\ c.payload = NewKyc(a.did, a.info))
                => (last'.err = NoError /\ kycs' = E2E_Pending(a))
          /\ (/\ kycs = E2E_Pending(a)
              /\ last'.op = "approve_kyc"
              /\ approve_kyc(owner, 0, TRUE))
                => (last'.err = NoError /\ kycs' = E2E_Approved(a))
          /\ (/\ kycs = E2E_Approved(a)
              /\ storage_adddress.identifier # ZeroIdentifier
              /\ last'.op = "create_vc"
              /\ IsOwnersCreateVc(0))
                => /\ last'.err = NoError
                   /\ BagCardinality(calls') = BagCardinality(calls) + 1
                   /\ kycs' = E2E_Approved(a)
          /\ (/\ kycs = E2E_Approved(a)
              /\ last'.op = "create_vc_callback"
              /\ last'.success = TRUE)
                => (last'.err = NoError /\ kycs' = E2E_Approved(a))]_vars

\* C14 witness: the end of the run: the issuance of the one approved record
\* was confirmed and nothing is in flight.
C14_Witness ==
    /\ last.op = "create_vc_callback"
    /\ last.success = TRUE
    /\ last.err = NoError
    /\ \E a \in Applicants : kycs = E2E_Approved(a)
    /\ calls = EmptyBag

\* C15: an accepted upload_kyc or create_vc adds exactly one event group,
\* with its own callback, to those in flight; a rejected one, approve_kyc
\* and configure_registry_address add none; a callback runs for an event
\* group in flight and takes exactly that one out; and a step that stores a
\* record is a callback invoked with success that takes one upload event
\* group out, so that records never outnumber the successful submissions.
C15_OneMore(callback) ==
    \E e \in BagToSet(calls') :
       /\ e.callback = callback
       /\ calls' = calls (+) SetToBag({e})

C15_OneLess(callback) ==
    \E c \in BagToSet(calls) :
       /\ c.callback = callback
       /\ calls' = calls (-) SetToBag({c})
       /\ BagCardinality(calls') = BagCardinality(calls) - 1

C15_OneCallOneCallback ==
    [][/\ (last'.op = "upload_kyc" /\ last'.err = NoError) =>
             C15_OneMore("upload_kyc_callback")
       /\ (last'.op = "create_vc" /\ last'.err = NoError) =>
             C15_OneMore("create_vc_callback")
       /\ (last'.op \in {"upload_kyc", "create_vc"} /\ last'.err # NoError) =>
             calls' = calls
       /\ last'.op \in {"approve_kyc", "configure_registry_address"} =>
             calls' = calls
       /\ last'.op \in {"upload_kyc_callback", "create_vc_callback"} =>
             C15_OneLess(last'.op)
       /\ KycsLen(kycs') # KycsLen(kycs) =>
             /\ KycsLen(kycs') = KycsLen(kycs) + 1
             /\ last'.op = "upload_kyc_callback"
             /\ last'.success = TRUE
             /\ Uploads(calls') = Uploads(calls) - 1]_vars

\* C15 witness: an issuance call and a verification call are in flight
\* together.
C15_Witness ==
    /\ BagCardinality(calls) = 2
    /\ Uploads(calls) = 1
    /\ last.op \in {"upload_kyc", "create_vc"}
    /\ last.err = NoError

\* C16: the event group of an accepted upload_kyc carries the did and the
\* attribute list it was given; the successful callback of an event group
\* stores exactly the record that event group carries, whatever else is in
\* flight, and leaves every record already stored as it was.
C16_OwnPayload ==
    [][/\ (last'.op = "upload_kyc" /\ last'.err = NoError) =>
             \A a \in Applicants :
                upload_kyc(last'.sender, a.did, a.info) =>
                   \E e \in BagToSet(calls') :
                      /\ calls' = calls (+) SetToBag({e})
                      /\ e.payload.applicant_did = a.did
                      /\ e.payload.applicant_info = a.info
                      /\ e.arguments = <<a.did, last'.sender>>
       /\ (last'.op = "upload_kyc_callback" /\ last'.success = TRUE) =>
             \A c \in BagToSet(calls) :
                IsUploadCallbackOf(c) =>
                   /\ \E k \in DOMAIN kycs' \ DOMAIN kycs :
                         /\ kycs'[k].applicant_did = c.payload.applicant_did
                         /\ kycs'[k].applicant_info = c.payload.applicant_info
                         /\ kycs'[k].applicant_did = c.arguments[1]
                   /\ \A k \in DOMAIN kycs : kycs'[k] = kycs[k]]_vars

\* C16 witness: of two submissions for different applicants built while the
\* store was empty, one is stored and the other still in flight.
C16_Witness ==
    /\ last.op = "upload_kyc_callback"
    /\ last.success = TRUE
    /\ KycsLen(kycs) = 1
    /\ \E c \in BagToSet(calls) :
          /\ c.callback = "upload_kyc_callback"
          /\ c.pre = 0
          /\ c.payload.applicant_did # kycs[0].applicant_did

\* The step is the callback of the in-flight create_vc event group c.
IsVcCallbackOf(c) ==
    /\ c.callback = "create_vc_callback"
    /\ calls' = Remove(calls, c)
    /\ last'.op = "create_vc_callback"

\* C17 as claimed: when create_vc_callback ends successfully, the record its
\* event group was built for is approved.
C17_ApprovedAtConfirmation ==
    [][(last'.op = "create_vc_callback" /\ last'.success = TRUE) =>
       \A c \in BagToSet(calls) :
          IsVcCallbackOf(c) => kycs[c.arguments[2]].approved]_vars

\* C17 amended: an accepted create_vc names a record that is approved and
\* not pending; when create_vc_callback ends successfully, the record its
\* event group was built for is still stored for the same applicant and is
\* not pending, but it need not be approved any more.
C17_ApprovedAtDispatch ==
    [][/\ (last'.op = "create_vc" /\ last'.err = NoError) =>
             \E e \in BagToSet(calls') :
                /\ calls' = calls (+) SetToBag({e})
                /\ e.arguments[2] \in DOMAIN kycs
                /\ kycs[e.arguments[2]].approved
                /\ ~kycs[e.arguments[2]].pending
       /\ (last'.op = "create_vc_callback" /\ last'.success = TRUE) =>
             \A c \in BagToSet(calls) :
                IsVcCallbackOf(c) =>
                   /\ last'.err = NoError
                   /\ c.arguments[2] \in DOMAIN kycs
                   /\ ~kycs[c.arguments[2]].pending
                   /\ kycs[c.arguments[2]].applicant_did = c.arguments[3]]_vars

\* C17 witness: one issuance of the only record was confirmed and another is
\* in flight, and the record has been denied since they were requested.
C17_Witness ==
    /\ last.op = "create_vc_callback"
    /\ last.success = TRUE
    /\ KycsLen(kycs) = 1
    /\ ~kycs[0].approved
    /\ \E c \in BagToSet(calls) : c.callback = "create_vc_callback"

\* How the owner's create_vc on k ends when the storage address counts as
\* unset exactly if unset holds.
C19_CreateVcResult(k, unset) ==
    IF unset THEN StorageNotConfigured
    ELSE IF k \notin DOMAIN kycs THEN KycNotFound
    ELSE IF ~kycs[k].approved THEN KycNotApproved
    ELSE NoError

\* The owner's transaction ended with a panic: no event group, no change.
C19_NothingDone == calls' = calls /\ state' = state

C19_ApproveNotFound ==
    (last'.op = "approve_kyc" /\ last'.sender = owner) =>
       \A k \in KycIdxs \ DOMAIN kycs, b \in BOOLEAN :
          approve_kyc(owner, k, b) => (last'.err = KycNotFound /\ C19_NothingDone)

\* C19 as claimed: the owner's create_vc fails with the storage panic exactly
\* when the storage address is the blank address, and otherwise goes on to
\* the lookup and the approved flag.
C19_BlankSentinelFirst ==
    [][/\ C19_ApproveNotFound
       /\ (last'.op = "create_vc" /\ last'.sender = owner) =>
             \A k \in KycIdxs :
                IsOwnersCreateVc(k) =>
                   /\ last'.err = C19_CreateVcResult(k, storage_adddress = blank_address)
                   /\ last'.err # NoError => C19_NothingDone]_vars

\* C19 amended: the owner's approve_kyc on a key not stored fails with "KYC
\* Not Found!"; the owner's create_vc fails with the storage panic when the
\* identifier of the storage address is all zero, whatever its address type,
\* otherwise with "KYC Not Found!" when the key is not stored, otherwise
\* with "KYC Not Approved!" when the record is not approved; each failure
\* builds no event group and leaves the state as it was.
C19_ZeroIdentifierFirst ==
    [][/\ C19_ApproveNotFound
       /\ (last'.op = "create_vc" /\ last'.sender = owner) =>
             \A k \in KycIdxs :
                IsOwnersCreateVc(k) =>
                   /\ last'.err = C19_CreateVcResult(
                                     k, storage_adddress.identifier = ZeroIdentifier)
                   /\ last'.err # NoError => C19_NothingDone]_vars

\* C19 witness: with a record stored, the owner's create_vc failed on the
\* storage address, which is not the blank address.
C19_Witness ==
    /\ last.op = "create_vc"
    /\ last.sender = owner
    /\ last.err = StorageNotConfigured
    /\ storage_adddress # blank_address
    /\ KycsLen(kycs) = 1

\* C20: an accepted approve_kyc(k, b) leaves the keys, the did and the
\* attribute list of record k, every other record, the owner, both addresses
\* and the event groups in flight as they were; and no step at all changes
\* the did or the attribute list of a stored record.
C20_DecideFrame ==
    [][/\ (last'.op = "approve_kyc" /\ last'.err = NoError) =>
             \A k \in DOMAIN kycs, b \in BOOLEAN :
                approve_kyc(last'.sender, k, b) =>
                   /\ DOMAIN kycs' = DOMAIN kycs
                   /\ \A j \in DOMAIN kycs \ {k} : kycs'[j] = kycs[j]
                   /\ kycs'[k].applicant_did = kycs[k].applicant_did
                   /\ kycs'[k].applicant_info = kycs[k].applicant_info
                   /\ owner' = owner
                   /\ registry_address' = registry_address
                   /\ storage_adddress' = storage_adddress
                   /\ calls' = calls
       /\ \A k \in DOMAIN kycs :
             /\ k \in DOMAIN kycs'
             /\ kycs'[k].applicant_did = kycs[k].applicant_did
             /\ kycs'[k].applicant_info = kycs[k].applicant_info]_vars

\* C20 witness: a record with attributes was decided while another record is
\* stored and an event group is in flight.
C20_Witness ==
    /\ last.op = "approve_kyc"
    /\ last.err = NoError
    /\ KycsLen(kycs) = 2
    /\ \E k \in DOMAIN kycs : ~kycs[k].pending /\ kycs[k].applicant_info # <<>>
    /\ \E k \in DOMAIN kycs : kycs[k].pending
    /\ calls # EmptyBag

\* The step takes event group e out of those in flight: it is e's own
\* callback and takes out nothing else; invoked with success it stores the
\* record e carries (upload_kyc_callback) or ends without error
\* (create_vc_callback); invoked with failure it ends with the panic of its
\* assert and leaves the state as it was.
C18_Resolved(e) ==
    /\ last'.op = e.callback
    /\ calls' = Remove(calls, e)
    /\ IF last'.success = TRUE
       THEN /\ last'.err = NoError
            /\ IF e.callback = "upload_kyc_callback"
               THEN kycs' = Insert(kycs, KycsLen(kycs), e.payload)
               ELSE kycs' = kycs
       ELSE /\ last'.success = FALSE
            /\ last'.err = IF e.callback = "upload_kyc_callback"
                           THEN DidNotRegistered
                           ELSE VcFailedToUpload
            /\ state' = state

\* Every event group in flight is one the environment is bound to resolve,
\* and its callback can run whatever else is in flight.
C18_NoneBlocked ==
    \A e \in BagToSet(calls) :
       /\ e \in UploadEvents \cup VcEvents
       /\ ENABLED Resolve(e)

\* C18: under FairSpec no event group stays in flight for ever: each one in
\* flight can be resolved whatever else is in flight, leaves those in flight
\* only by its own callback, with its record stored or its issuance
\* confirmed on success and its transaction discarded on failure, and is
\* again and again not in flight.
C18_EveryCallResolves ==
    /\ []C18_NoneBlocked
    /\ [][\A e \in BagToSet(calls) : ~BagIn(e, calls') => C18_Resolved(e)]_vars
    /\ \A e \in UploadEvents \cup VcEvents : []<>~BagIn(e, calls)

\* C18 witness: a verification and an issuance were in flight together and
\* the issuance was resolved first.
C18_Witness ==
    /\ last.op = "create_vc_callback"
    /\ Uploads(calls) = 1
    /\ BagCardinality(calls) = 1

====
